---- MODULE Spec2Model ----
(***************************************************************************)
(* Model of mysql-auto-db-proxy (src/main.go): the per-connection relay    *)
(* handleConnection, the provisioning call ensureDatabaseExists, the       *)
(* client-to-upstream forwarder forwardWithUseInterception and the pure    *)
(* helpers they use.  Byte strings are sequences of integers 0..255.       *)
(***************************************************************************)
EXTENDS Integers, Sequences, FiniteSets, TLC

\* ------------------------------------------------------------------ bounds
NumSessions == 2        \* sessions that run side by side under SpecRace
MaxNameLen == 3         \* length of the enumerated schema names
MaxClientFrames == 2    \* frames the clients send after the handshake response
MaxFaults == 1          \* faults (close, failure, cut, deadline) per run
RaceClientFrames == 1   \* frames after the handshake response under SpecRace
RaceFaults == 1         \* faults per run under SpecRace
MaxPayloadLen == 3      \* length of the enumerated frame payloads
MaxTailLen == 4         \* bytes after the 32 fixed ones in the enumerated payloads
MaxRestLen == 3         \* bytes after the first four of the enumerated commands

Sessions == 1..NumSessions

\* ------------------------------------------------------- string literals
STR_information_schema == <<105, 110, 102, 111, 114, 109, 97, 116, 105, 111, 110, 95, 115, 99, 104, 101, 109, 97>>  \* "information_schema"
STR_mysql == <<109, 121, 115, 113, 108>>  \* "mysql"
STR_performance_schema == <<112, 101, 114, 102, 111, 114, 109, 97, 110, 99, 101, 95, 115, 99, 104, 101, 109, 97>>  \* "performance_schema"
STR_sys == <<115, 121, 115>>  \* "sys"
STR_USE == <<85, 83, 69, 32>>  \* "USE "
STR_mysql_native_password == <<109, 121, 115, 113, 108, 95, 110, 97, 116, 105, 118, 101, 95, 112, 97, 115, 115, 119, 111, 114, 100>>  \* "mysql_native_password"
STR_caching_sha2_password == <<99, 97, 99, 104, 105, 110, 103, 95, 115, 104, 97, 50, 95, 112, 97, 115, 115, 119, 111, 114, 100>>  \* "caching_sha2_password"
STR_sha256_password == <<115, 104, 97, 50, 53, 54, 95, 112, 97, 115, 115, 119, 111, 114, 100>>  \* "sha256_password"
STR_client == <<95, 99, 108, 105, 101, 110, 116, 95>>  \* "_client_"

\* ------------------------------------------------------------ Go helpers
\* strings.ToLower on one ASCII byte
ToLowerByte(b) == IF b >= 65 /\ b <= 90 THEN b + 32 ELSE b

\* strings.ToUpper on one ASCII byte
ToUpperByte(b) == IF b >= 97 /\ b <= 122 THEN b - 32 ELSE b

\* strings.ToLower
ToLower(s) == [i \in 1..Len(s) |-> ToLowerByte(s[i])]

\* strings.ToUpper
ToUpper(s) == [i \in 1..Len(s) |-> ToUpperByte(s[i])]

\* strings.Contains
Contains(s, sub) ==
    \E i \in 0..(Len(s) - Len(sub)) : SubSeq(s, i + 1, i + Len(sub)) = sub

\* one byte of the class [a-zA-Z0-9_-]
InValidClass(b) ==
    \/ b >= 97 /\ b <= 122
    \/ b >= 65 /\ b <= 90
    \/ b >= 48 /\ b <= 57
    \/ b = 95
    \/ b = 45

\* regexp.MustCompile(`^[a-zA-Z0-9_-]+$`).MatchString
validPattern(s) == Len(s) >= 1 /\ \A i \in 1..Len(s) : InValidClass(s[i])

\* validateDatabaseName without the "information_schema" test
validateDatabaseName_NoInformationSchema(dbName) ==
    IF dbName = <<>> THEN "empty"
    ELSE IF \/ Contains(ToLower(dbName), STR_mysql)
            \/ Contains(ToLower(dbName), STR_performance_schema)
            \/ Contains(ToLower(dbName), STR_sys)
         THEN "not_allowed"
    ELSE IF ~validPattern(dbName) THEN "invalid_characters"
    ELSE "nil"

\* validateDatabaseName without the "sys" test
validateDatabaseName_NoSys(dbName) ==
    IF dbName = <<>> THEN "empty"
    ELSE IF \/ Contains(ToLower(dbName), STR_information_schema)
            \/ Contains(ToLower(dbName), STR_mysql)
            \/ Contains(ToLower(dbName), STR_performance_schema)
         THEN "not_allowed"
    ELSE IF ~validPattern(dbName) THEN "invalid_characters"
    ELSE "nil"

\* validateDatabaseName: "nil" for success, otherwise the kind of error
validateDatabaseName(dbName) ==
    IF dbName = <<>> THEN "empty"
    ELSE IF \/ Contains(ToLower(dbName), STR_information_schema)
            \/ Contains(ToLower(dbName), STR_mysql)
            \/ Contains(ToLower(dbName), STR_performance_schema)
            \/ Contains(ToLower(dbName), STR_sys)
         THEN "not_allowed"
    ELSE IF ~validPattern(dbName) THEN "invalid_characters"
    ELSE "nil"

\* -------------------------------------------------------------- frame codec
\* data[a:b] of Go (0-based, b exclusive)
Slice(data, a, b) == SubSeq(data, a + 1, b)

\* packetLength of readPacketWithTimeout: 24-bit little-endian
packetLength(header) == header[1] + header[2] * 256 + header[3] * 65536

\* the MySQLPacket readPacketWithTimeout builds from a header and its payload
MySQLPacket(header, payload) ==
    [Length |-> packetLength(header), SequenceID |-> header[4],
     Payload |-> payload, FullPacket |-> header \o payload]

\* whether the bytes at hand hold a whole frame (both io.ReadFull calls can finish)
FrameReady(avail) ==
    Len(avail) >= 4 /\ Len(avail) >= 4 + packetLength(SubSeq(avail, 1, 4))

\* the frame readPacketWithTimeout returns from the bytes at hand
readPacket(avail) ==
    MySQLPacket(SubSeq(avail, 1, 4),
                SubSeq(avail, 5, 4 + packetLength(SubSeq(avail, 1, 4))))

\* okPacket of handleConnection: only SequenceID and Payload are set, so
\* Length is 0 and FullPacket is nil
okPacket ==
    [Length |-> 0, SequenceID |-> 2,
     Payload |-> <<0, 0, 0, 2, 0, 0, 0>>, FullPacket |-> <<>>]

\* the bytes writePacket hands to conn.Write
writePacket(packet) == packet.FullPacket

\* io.ReadFull(conn, make([]byte, n)) on a stream of which `from' bytes were
\* read: stream.data is what arrives before the stream ends, by the peer's
\* close ("eof") or by the read deadline ("timeout").  n = 0 reads nothing.
ReadFull(stream, from, n) ==
    LET upto == IF from + n < Len(stream.data) THEN from + n ELSE Len(stream.data)
        got == SubSeq(stream.data, from + 1, upto)
    IN [bytes |-> got,
        err |-> IF Len(got) = n THEN "nil"
                ELSE IF stream.end = "timeout" THEN "timeout"
                ELSE IF Len(got) = 0 THEN "EOF"
                ELSE "unexpected EOF"]

\* readPacketWithTimeout that takes the payload from one conn.Read
readPacketWithTimeout_OneRead(stream) ==
    LET header == ReadFull(stream, 0, 4)
    IN IF header.err # "nil"
       THEN [packet |-> <<>>, err |-> header.err]
       ELSE LET payload == ReadFull(stream, 4, packetLength(header.bytes))
            IN IF payload.bytes = <<>> /\ payload.err # "nil"
               THEN [packet |-> <<>>, err |-> payload.err]
               ELSE [packet |-> <<MySQLPacket(header.bytes, payload.bytes)>>,
                     err |-> "nil"]

\* lines 519-544: the pointer returned (<<>> for nil) and the error, for the
\* bytes the connection delivers before it ends
readPacketWithTimeout(stream) ==
    LET header == ReadFull(stream, 0, 4)
    IN IF header.err # "nil"
       THEN [packet |-> <<>>, err |-> header.err]
       ELSE LET payload == ReadFull(stream, 4, packetLength(header.bytes))
            IN IF payload.err # "nil"
               THEN [packet |-> <<>>, err |-> payload.err]
               ELSE [packet |-> <<MySQLPacket(header.bytes, payload.bytes)>>,
                     err |-> "nil"]

\* ------------------------------------------------------- parseDatabaseName
RECURSIVE ScanNul(_, _)
\* for pos < len(p) && p[pos] != 0 { pos++ }
ScanNul(p, pos) ==
    IF pos < Len(p) /\ p[pos + 1] # 0 THEN ScanNul(p, pos + 1) ELSE pos

\* what a Go index or slice expression out of range ends in: a panic
\* (bytes are 0..255, so neither value is a byte or a byte string)
OutOfRange == 0 - 1
Panic == <<OutOfRange>>

\* data[i] of Go
GoIndex(data, i) == IF i >= 0 /\ i < Len(data) THEN data[i + 1] ELSE OutOfRange

\* data[a:b] of Go, with its bounds check
GoSlice(data, a, b) ==
    IF 0 <= a /\ a <= b /\ b <= Len(data) THEN SubSeq(data, a + 1, b) ELSE Panic

\* LooksLikeName without the test for byte 0x0c
LooksLikeName_NoFormFeed(f) ==
    Len(f) > 0 /\ ~Contains(f, STR_client)

\* the test applied to a candidate before it is returned
LooksLikeName(f) ==
    Len(f) > 0 /\ ~Contains(f, STR_client) /\ ~Contains(f, <<12>>)

IsAuthMethod(f) ==
    \/ f = STR_mysql_native_password
    \/ f = STR_caching_sha2_password
    \/ f = STR_sha256_password

\* lines 620-683: the field after the password, from position pos
parseAfterPassword(p, pos2) ==
    LET nextEnd == ScanNul(p, pos2)
        nextField == GoSlice(p, pos2, nextEnd)
    IN IF ~(nextEnd > pos2) THEN <<>>
    ELSE IF nextField = Panic THEN Panic
    ELSE IF IsAuthMethod(nextField)
    THEN LET pos3 == nextEnd + 1
         IN IF pos3 >= Len(p) THEN <<>>
            ELSE LET dbEnd == ScanNul(p, pos3)
                     databaseName == GoSlice(p, pos3, dbEnd)
                 IN IF dbEnd > pos3 /\ LooksLikeName(databaseName)
                    THEN databaseName ELSE <<>>
    ELSE IF LooksLikeName(nextField) THEN nextField ELSE <<>>

\* parseDatabaseName without the tests of lines 596 and 602 before the
\* password length is read
parseDatabaseName_NoLengthCheck(p) ==
    IF Len(p) < 32 THEN <<>>
    ELSE
    LET userEnd == ScanNul(p, 32)
        pos1 == userEnd + 1
        passwordLen == GoIndex(p, pos1)
        pos2 == pos1 + 1 + passwordLen
    IN IF passwordLen = OutOfRange THEN Panic
    ELSE IF pos2 >= Len(p) THEN <<>>
    ELSE parseAfterPassword(p, pos2)

parseDatabaseName(p) ==
    IF Len(p) < 32 THEN <<>>
    ELSE
    LET userEnd == ScanNul(p, 32)
        pos1 == userEnd + 1
    IN IF pos1 >= Len(p) THEN <<>>
    ELSE
    LET passwordLen == GoIndex(p, pos1)
        pos2 == pos1 + 1 + passwordLen
    IN IF passwordLen = OutOfRange THEN Panic
    ELSE IF pos2 >= Len(p) THEN <<>>
    ELSE parseAfterPassword(p, pos2)

\* ------------------------------------------------- in-session classifier
\* isUseCommand that compares without strings.ToUpper
isUseCommand_CaseSensitive(data) ==
    IF Len(data) < 5 THEN FALSE
    ELSE IF 4 + 4 <= Len(data) THEN Slice(data, 4, 8) = STR_USE
    ELSE FALSE

isUseCommand(data) ==
    IF Len(data) < 5 THEN FALSE
    ELSE IF 4 + 4 <= Len(data) THEN ToUpper(Slice(data, 4, 8)) = STR_USE
    ELSE FALSE

RECURSIVE ScanNameEnd(_, _)
\* for end < len(data) && data[end] != 0 && data[end] != ';' && data[end] != ' '
ScanNameEnd(data, end) ==
    IF end < Len(data) /\ data[end + 1] # 0 /\ data[end + 1] # 59 /\ data[end + 1] # 32
    THEN ScanNameEnd(data, end + 1) ELSE end

extractDatabaseFromUseCommand(data) ==
    IF Len(data) < 8 THEN <<>>
    ELSE LET end == ScanNameEnd(data, 8)
         IN IF end > 8 THEN Slice(data, 8, end) ELSE <<>>

\* ------------------------------------------------------------ the peers
\* a frame as a peer puts it on the wire: 3-byte little-endian length, sequence id
Frame(seq, payload) ==
    <<Len(payload) % 256, (Len(payload) \div 256) % 256,
      (Len(payload) \div 65536) % 256, seq>> \o payload

\* a handshake response payload: 32 fixed bytes, user NUL, length-prefixed
\* password, trailing fields
HandshakePayload(user, password, trailing) ==
    [i \in 1..32 |-> 0] \o user \o <<0>> \o <<Len(password)>> \o password \o trailing

NAME_db == <<100, 98>>          \* "db"
NAME_t == <<116>>               \* "t"
NAME_quote == <<100, 96>>       \* "d`"
USER_root == <<114, 111, 111, 116>>  \* "root"

\* the schema names a client puts in its handshake response (<<>>: none)
HandshakeNames == {<<>>, NAME_db, NAME_quote, STR_information_schema}

\* the handshake response frames a client may send
HandshakeFrames ==
    {Frame(1, HandshakePayload(USER_root, <<>>, IF n = <<>> THEN <<>> ELSE n \o <<0>>)) :
        n \in HandshakeNames}

FRAME_query == Frame(0, <<3, 49>>)                    \* COM_QUERY "1"
FRAME_use_t == Frame(0, STR_USE \o NAME_t)            \* "USE t"
FRAME_use_sys == Frame(0, <<117, 115, 101, 32>> \o STR_sys \o <<59>>)  \* "use sys;"

\* the frames a client may send after its handshake response
RelayFrames == {FRAME_query, FRAME_use_t, FRAME_use_sys}

Greeting == Frame(0, <<10>>)                               \* server greeting
Reply == Frame(2, <<0, 0, 0, 2, 0, 0, 0>>)                 \* server's OK

\* the schemas that clients outside the modelled sessions may create
ExternalNames == {NAME_db, NAME_t}

\* where the transport may cut a client frame in two deliveries: after the
\* header and four bytes of the command
ClientCuts(frame) == {n \in {8} : n < Len(frame)}

\* where the transport may cut the upstream's reply: inside its header,
\* inside its payload
ReplyCuts == {n \in {2, 8} : n < Len(Reply)}


\* ---------------------------------------------------------------- state
VARIABLES
    pc,               \* where handleConnection of each session stands
    fwd,              \* where the forwardWithUseInterception goroutine stands
    age,              \* 0: deadlines of 864-865 pending; 1: they passed;
                      \* 2: the read deadline of line 522 passed too
    cliSent,          \* bytes that arrived from the client, in order
    cliRead,          \* how many of them the proxy has read
    cliPending,       \* rest of a client frame the transport still holds
    cliPeer,          \* "open" | "closed": the client's end of clientConn
    upSent,           \* bytes that arrived from the upstream, in order
    upRead,           \* how many of them the proxy has read
    upPending,        \* rest of an upstream frame the transport still holds
    upPeer,           \* "none" | "open" | "closed": the upstream's end of mysqlConn
    toUp,             \* bytes the proxy wrote to mysqlConn
    toCli,            \* bytes the proxy wrote to clientConn
    cliClosed,        \* number of clientConn.Close() calls
    upClosed,         \* number of mysqlConn.Close() calls
    serverGreeting,   \* FullPacket of the greeting read at line 868
    clientHandshake,  \* FullPacket of the handshake response read
    replyErr,         \* err of readPacketWithTimeout at line 910
    serverResponse,   \* FullPacket read at line 910
    buf,              \* buffer[:n] of the forwarder
    ens,              \* the ensureDatabaseExists call of each session
    calls,            \* per session, the ensureDatabaseExists calls made
    schemas,          \* schemas present on the upstream server
    createLog,        \* <<session, name>> of each CREATE DATABASE statement issued
    adminLog,         \* <<session, name>> of each administrative connection opened
    env,              \* what the environment may still do
    callArg,          \* argument of a pure function under test
    callRet,          \* its result
    listener          \* the accept loop of main: whether it runs, the errors it logged

sessVars == <<pc, fwd, age, toUp, toCli, cliRead, upRead, cliClosed, upClosed,
              serverGreeting, clientHandshake, replyErr, serverResponse, buf>>
cliNet == <<cliSent, cliPending, cliPeer>>
upNet == <<upSent, upPending, upPeer>>
gateVars == <<ens, calls>>
dbVars == <<schemas, createLog, adminLog>>
pureVars == <<callArg, callRet>>
mainVars == <<listener>>
vars == <<sessVars, cliNet, upNet, gateVars, dbVars, env, pureVars, mainVars>>

IdleCall == [pc |-> "idle", name |-> <<>>, site |-> "none", exists |-> 0,
             conn |-> "none", err |-> "none"]

InitSessions ==
    /\ pc = [s \in Sessions |-> "idle"]
    /\ fwd = [s \in Sessions |-> "none"]
    /\ age = [s \in Sessions |-> 0]
    /\ cliSent = [s \in Sessions |-> <<>>]
    /\ cliRead = [s \in Sessions |-> 0]
    /\ cliPending = [s \in Sessions |-> <<>>]
    /\ cliPeer = [s \in Sessions |-> "open"]
    /\ upSent = [s \in Sessions |-> <<>>]
    /\ upRead = [s \in Sessions |-> 0]
    /\ upPending = [s \in Sessions |-> <<>>]
    /\ upPeer = [s \in Sessions |-> "none"]
    /\ toUp = [s \in Sessions |-> <<>>]
    /\ toCli = [s \in Sessions |-> <<>>]
    /\ cliClosed = [s \in Sessions |-> 0]
    /\ upClosed = [s \in Sessions |-> 0]
    /\ serverGreeting = [s \in Sessions |-> <<>>]
    /\ clientHandshake = [s \in Sessions |-> <<>>]
    /\ replyErr = [s \in Sessions |-> "none"]
    /\ serverResponse = [s \in Sessions |-> <<>>]
    /\ buf = [s \in Sessions |-> <<>>]
    /\ ens = [s \in Sessions |-> IdleCall]
    /\ calls = [s \in Sessions |-> <<>>]
    /\ schemas = {}
    /\ createLog = {}
    /\ adminLog = {}
    /\ listener = [loop |-> "running", errors |-> 0]

\* one session is followed; what every other session and client does to the
\* upstream server is OtherClientCreates
Init ==
    /\ InitSessions
    /\ env = [conns |-> 1, faults |-> MaxFaults, frames |-> MaxClientFrames]
    /\ callArg = <<>>
    /\ callRet = "none"

\* ------------------------------------------------------- the environment
Avail(sent, read) == SubSeq(sent, read + 1, Len(sent))

Spend(field) == env' = [env EXCEPT ![field] = @ - 1]

\* the client's bytes reach the proxy: the rest of a cut frame, the
\* handshake response (once the greeting was seen), or a later frame
ClientSend(s) ==
    /\ pc[s] # "idle" /\ cliClosed[s] = 0 /\ cliPeer[s] = "open"
    /\ \/ /\ cliPending[s] # <<>>
          /\ cliSent' = [cliSent EXCEPT ![s] = @ \o cliPending[s]]
          /\ cliPending' = [cliPending EXCEPT ![s] = <<>>]
          /\ UNCHANGED env
       \/ /\ cliPending[s] = <<>> /\ cliSent[s] = <<>> /\ toCli[s] # <<>>
          /\ \E f \in HandshakeFrames : cliSent' = [cliSent EXCEPT ![s] = f]
          /\ UNCHANGED <<cliPending, env>>
       \/ /\ cliPending[s] = <<>> /\ cliSent[s] # <<>> /\ env.frames > 0
          /\ \E f \in RelayFrames :
                \/ /\ cliSent' = [cliSent EXCEPT ![s] = @ \o f]
                   /\ UNCHANGED cliPending
                   /\ Spend("frames")
                \/ /\ env.faults > 0
                   /\ \E n \in ClientCuts(f) :
                        /\ cliSent' = [cliSent EXCEPT ![s] = @ \o SubSeq(f, 1, n)]
                        /\ cliPending' = [cliPending EXCEPT ![s] = SubSeq(f, n + 1, Len(f))]
                   /\ env' = [env EXCEPT !.frames = @ - 1, !.faults = @ - 1]
    /\ UNCHANGED <<sessVars, cliPeer, upNet, gateVars, dbVars, pureVars, mainVars>>

\* the client closes its end
ClientClose(s) ==
    /\ pc[s] # "idle" /\ cliClosed[s] = 0 /\ cliPeer[s] = "open"
    /\ env.faults > 0
    /\ cliPeer' = [cliPeer EXCEPT ![s] = "closed"]
    /\ cliPending' = [cliPending EXCEPT ![s] = <<>>]
    /\ Spend("faults")
    /\ UNCHANGED <<sessVars, cliSent, upNet, gateVars, dbVars, pureVars, mainVars>>

\* the upstream's bytes reach the proxy: the rest of a cut frame, the greeting,
\* the reply to the handshake response, one later frame
UpstreamSend(s) ==
    /\ upPeer[s] = "open" /\ upClosed[s] = 0
    /\ \/ /\ upPending[s] # <<>>
          /\ upSent' = [upSent EXCEPT ![s] = @ \o upPending[s]]
          /\ upPending' = [upPending EXCEPT ![s] = <<>>]
          /\ UNCHANGED env
       \/ /\ upPending[s] = <<>> /\ upSent[s] = <<>>
          /\ upSent' = [upSent EXCEPT ![s] = Greeting]
          /\ UNCHANGED <<upPending, env>>
       \/ /\ upPending[s] = <<>> /\ upSent[s] # <<>> /\ toUp[s] # <<>>
          /\ Len(upSent[s]) < Len(Greeting) + 2 * Len(Reply)
          /\ \/ /\ upSent' = [upSent EXCEPT ![s] = @ \o Reply]
                /\ UNCHANGED <<upPending, env>>
             \/ /\ env.faults > 0
                /\ \E n \in ReplyCuts :
                     /\ upSent' = [upSent EXCEPT ![s] = @ \o SubSeq(Reply, 1, n)]
                     /\ upPending' = [upPending EXCEPT ![s] = SubSeq(Reply, n + 1, Len(Reply))]
                /\ Spend("faults")
    /\ UNCHANGED <<sessVars, upPeer, cliNet, gateVars, dbVars, pureVars, mainVars>>

\* UpstreamSend of a part of a reply, without the bound on the number of
\* such deliveries in a run
Trickle(s) ==
    /\ upPeer[s] = "open" /\ upClosed[s] = 0
    /\ upPending[s] = <<>> /\ upSent[s] # <<>> /\ toUp[s] # <<>>
    /\ Len(upSent[s]) < Len(Greeting) + 2 * Len(Reply)
    /\ \E n \in ReplyCuts :
          /\ upSent' = [upSent EXCEPT ![s] = @ \o SubSeq(Reply, 1, n)]
          /\ upPending' = [upPending EXCEPT ![s] = SubSeq(Reply, n + 1, Len(Reply))]
    /\ UNCHANGED <<sessVars, upPeer, cliNet, gateVars, dbVars, env, pureVars, mainVars>>

\* the upstream closes its end
UpstreamClose(s) ==
    /\ upPeer[s] = "open" /\ upClosed[s] = 0
    /\ env.faults > 0
    /\ upPeer' = [upPeer EXCEPT ![s] = "closed"]
    /\ upPending' = [upPending EXCEPT ![s] = <<>>]
    /\ Spend("faults")
    /\ UNCHANGED <<sessVars, upSent, cliNet, gateVars, dbVars, pureVars, mainVars>>

\* a client that is none of the modelled sessions (another proxy session, an
\* operator) creates a schema on the upstream server
OtherClientCreates(n) ==
    /\ n \notin schemas
    /\ env.faults > 0
    /\ \E s \in Sessions : pc[s] \notin {"idle", "failed", "closed"}
    /\ schemas' = schemas \cup {n}
    /\ Spend("faults")
    /\ UNCHANGED <<sessVars, cliNet, upNet, gateVars, createLog, adminLog, pureVars, mainVars>>

\* time passes a deadline: the 30 s set at lines 864-865, then the 30 s set
\* at line 522 (later, since it is set later for the same duration)
Tick(s) ==
    /\ upPeer[s] # "none" /\ upClosed[s] = 0
    /\ \/ /\ age[s] = 0 /\ env.faults > 0
          /\ Spend("faults")
       \/ /\ age[s] = 1 /\ pc[s] = "readReply"
          /\ UNCHANGED env
    /\ age' = [age EXCEPT ![s] = @ + 1]
    /\ UNCHANGED <<pc, fwd, toUp, toCli, cliRead, upRead, cliClosed, upClosed,
                   serverGreeting, clientHandshake, replyErr, serverResponse, buf,
                   cliNet, upNet, gateVars, dbVars, pureVars, mainVars>>

\* Tick without the bound on the number of deadlines that pass in a run
Elapse(s) ==
    /\ upPeer[s] # "none" /\ upClosed[s] = 0
    /\ \/ age[s] = 0
       \/ age[s] = 1 /\ pc[s] = "readReply"
    /\ age' = [age EXCEPT ![s] = @ + 1]
    /\ UNCHANGED <<pc, fwd, toUp, toCli, cliRead, upRead, cliClosed, upClosed,
                   serverGreeting, clientHandshake, replyErr, serverResponse, buf,
                   cliNet, upNet, gateVars, dbVars, env, pureVars, mainVars>>

\* CliWriteOutcomes had the deadline of line 865 been cleared
CliWriteOutcomes_NoDeadline(s) ==
    IF cliPeer[s] = "closed" THEN {"nil", "err"} ELSE {"nil"}

\* conn.Write on clientConn: fails once the deadline of line 865 has passed,
\* may fail once the client has closed
CliWriteOutcomes(s) ==
    IF age[s] >= 1 THEN {"err"}
    ELSE IF cliPeer[s] = "closed" THEN {"nil", "err"} ELSE {"nil"}

\* conn.Write on mysqlConn: the write deadline of line 864 is never cleared
UpWriteOutcomes(s) ==
    IF age[s] >= 1 THEN {"err"}
    ELSE IF upPeer[s] = "closed" THEN {"nil", "err"} ELSE {"nil"}

\* ------------------------------------------------------------------ main
\* AcceptError that ends the accept loop
AcceptError_Fatal ==
    /\ listener.loop = "running"
    /\ env.conns > 0 /\ env.faults > 0
    /\ listener' = [listener EXCEPT !.loop = "exited", !.errors = @ + 1]
    /\ Spend("faults")
    /\ UNCHANGED <<sessVars, cliNet, upNet, gateVars, dbVars, pureVars>>

\* lines 982-986: listener.Accept returns an error, which is logged; the
\* loop continues
AcceptError ==
    /\ listener.loop = "running"
    /\ env.conns > 0 /\ env.faults > 0
    /\ listener' = [listener EXCEPT !.errors = @ + 1]
    /\ Spend("faults")
    /\ UNCHANGED <<sessVars, cliNet, upNet, gateVars, dbVars, pureVars>>

\* ------------------------------------------------------ handleConnection
\* main, lines 981-988: the accept loop starts handleConnection
Accept(s) ==
    /\ listener.loop = "running"
    /\ pc[s] = "idle" /\ env.conns > 0
    /\ \A t \in Sessions : t < s => pc[t] # "idle"
    /\ pc' = [pc EXCEPT ![s] = "dial"]
    /\ Spend("conns")
    /\ UNCHANGED <<fwd, age, toUp, toCli, cliRead, upRead, cliClosed, upClosed,
                   serverGreeting, clientHandshake, replyErr, serverResponse, buf,
                   cliNet, upNet, gateVars, dbVars, pureVars, mainVars>>

\* a return of handleConnection after mysqlConn was opened: both deferred
\* Close calls run
ReturnFailed(s) ==
    /\ pc' = [pc EXCEPT ![s] = "failed"]
    /\ upClosed' = [upClosed EXCEPT ![s] = @ + 1]
    /\ cliClosed' = [cliClosed EXCEPT ![s] = @ + 1]

\* Dial that sends the client an error frame when the dial failed
Dial_WritesError(s) ==
    /\ pc[s] = "dial"
    /\ \/ /\ pc' = [pc EXCEPT ![s] = "readGreeting"]
          /\ upPeer' = [upPeer EXCEPT ![s] = "open"]
          /\ UNCHANGED <<cliClosed, toCli, env>>
       \/ /\ env.faults > 0
          /\ pc' = [pc EXCEPT ![s] = "failed"]
          /\ toCli' = [toCli EXCEPT ![s] = Frame(0, <<255>>)]
          /\ cliClosed' = [cliClosed EXCEPT ![s] = @ + 1]
          /\ Spend("faults")
          /\ UNCHANGED upPeer
    /\ UNCHANGED <<fwd, age, toUp, cliRead, upRead, upClosed,
                   serverGreeting, clientHandshake, replyErr, serverResponse, buf,
                   cliNet, upSent, upPending, gateVars, dbVars, pureVars, mainVars>>

\* lines 855-865: net.DialTimeout, then the two SetDeadline calls
Dial(s) ==
    /\ pc[s] = "dial"
    /\ \/ /\ pc' = [pc EXCEPT ![s] = "readGreeting"]
          /\ upPeer' = [upPeer EXCEPT ![s] = "open"]
          /\ UNCHANGED <<cliClosed, env>>
       \/ /\ env.faults > 0
          /\ pc' = [pc EXCEPT ![s] = "failed"]
          /\ cliClosed' = [cliClosed EXCEPT ![s] = @ + 1]
          /\ Spend("faults")
          /\ UNCHANGED upPeer
    /\ UNCHANGED <<fwd, age, toUp, toCli, cliRead, upRead, upClosed,
                   serverGreeting, clientHandshake, replyErr, serverResponse, buf,
                   cliNet, upSent, upPending, gateVars, dbVars, pureVars, mainVars>>

\* lines 867-872: readPacket(mysqlConn)
ReadGreeting(s) ==
    /\ pc[s] = "readGreeting"
    /\ LET avail == Avail(upSent[s], upRead[s]) IN
       \/ /\ age[s] = 0 /\ FrameReady(avail)
          /\ serverGreeting' = [serverGreeting EXCEPT ![s] = readPacket(avail).FullPacket]
          /\ upRead' = [upRead EXCEPT ![s] = @ + Len(readPacket(avail).FullPacket)]
          /\ pc' = [pc EXCEPT ![s] = "writeGreeting"]
          /\ UNCHANGED <<upClosed, cliClosed>>
       \/ /\ \/ age[s] >= 1
             \/ ~FrameReady(avail) /\ upPeer[s] = "closed"
          /\ ReturnFailed(s)
          /\ UNCHANGED <<serverGreeting, upRead>>
    /\ UNCHANGED <<fwd, age, toUp, toCli, cliRead, clientHandshake, replyErr,
                   serverResponse, buf, cliNet, upNet, gateVars, dbVars, env, pureVars, mainVars>>

\* lines 874-878: writePacket(clientConn, serverGreeting)
WriteGreeting(s) ==
    /\ pc[s] = "writeGreeting"
    /\ \E r \in CliWriteOutcomes(s) :
        \/ /\ r = "nil"
           /\ toCli' = [toCli EXCEPT ![s] = @ \o serverGreeting[s]]
           /\ pc' = [pc EXCEPT ![s] = "readHandshake"]
           /\ UNCHANGED <<upClosed, cliClosed>>
        \/ /\ r = "err"
           /\ ReturnFailed(s)
           /\ UNCHANGED toCli
    /\ UNCHANGED <<fwd, age, toUp, cliRead, upRead, serverGreeting, clientHandshake,
                   replyErr, serverResponse, buf, cliNet, upNet, gateVars, dbVars,
                   env, pureVars, mainVars>>

\* the start of an ensureDatabaseExists call
StartCall(s, name, site) ==
    ens' = [ens EXCEPT ![s] = [pc |-> "validate", name |-> name, site |-> site,
                               exists |-> 0, conn |-> "none", err |-> "none"]]

\* lines 880-901: readPacket(clientConn), parseDatabaseName, and the call of
\* ensureDatabaseExists when a name was found
ReadHandshake(s) ==
    /\ pc[s] = "readHandshake"
    /\ LET avail == Avail(cliSent[s], cliRead[s]) IN
       \/ /\ age[s] = 0 /\ FrameReady(avail)
          /\ LET pkt == readPacket(avail)
                 databaseName == parseDatabaseName(pkt.Payload)
             IN /\ clientHandshake' = [clientHandshake EXCEPT ![s] = pkt.FullPacket]
                /\ cliRead' = [cliRead EXCEPT ![s] = @ + Len(pkt.FullPacket)]
                /\ IF databaseName # <<>>
                   THEN /\ StartCall(s, databaseName, "handshake")
                        /\ pc' = [pc EXCEPT ![s] = "gate"]
                   ELSE /\ UNCHANGED ens
                        /\ pc' = [pc EXCEPT ![s] = "writeHandshake"]
          /\ UNCHANGED <<upClosed, cliClosed>>
       \/ /\ \/ age[s] >= 1
             \/ ~FrameReady(avail) /\ cliPeer[s] = "closed"
          /\ ReturnFailed(s)
          /\ UNCHANGED <<clientHandshake, cliRead, ens>>
    /\ UNCHANGED <<fwd, age, toUp, toCli, upRead, serverGreeting, replyErr,
                   serverResponse, buf, cliNet, upNet, calls, dbVars, env, pureVars, mainVars>>

\* GateReturn that logs the error and goes on
GateReturn_IgnoreErr(s) ==
    /\ pc[s] = "gate" /\ ens[s].pc = "ret"
    /\ pc' = [pc EXCEPT ![s] = "writeHandshake"]
    /\ ens' = [ens EXCEPT ![s] = IdleCall]
    /\ UNCHANGED <<fwd, age, toUp, toCli, cliRead, upRead, upClosed, cliClosed,
                   serverGreeting, clientHandshake, replyErr, serverResponse, buf,
                   cliNet, upNet, calls, dbVars, env, pureVars, mainVars>>

\* lines 894-898: ensureDatabaseExists has returned to handleConnection
GateReturn(s) ==
    /\ pc[s] = "gate" /\ ens[s].pc = "ret"
    /\ IF ens[s].err # "nil"
       THEN ReturnFailed(s)
       ELSE /\ pc' = [pc EXCEPT ![s] = "writeHandshake"]
            /\ UNCHANGED <<upClosed, cliClosed>>
    /\ ens' = [ens EXCEPT ![s] = IdleCall]
    /\ UNCHANGED <<fwd, age, toUp, toCli, cliRead, upRead, serverGreeting,
                   clientHandshake, replyErr, serverResponse, buf, cliNet, upNet,
                   calls, dbVars, env, pureVars, mainVars>>

\* lines 903-907: writePacket(mysqlConn, clientHandshake)
WriteHandshake(s) ==
    /\ pc[s] = "writeHandshake"
    /\ \E r \in UpWriteOutcomes(s) :
        \/ /\ r = "nil"
           /\ toUp' = [toUp EXCEPT ![s] = @ \o clientHandshake[s]]
           /\ pc' = [pc EXCEPT ![s] = "readReply"]
           /\ UNCHANGED <<upClosed, cliClosed>>
        \/ /\ r = "err"
           /\ ReturnFailed(s)
           /\ UNCHANGED toUp
    /\ UNCHANGED <<fwd, age, toCli, cliRead, upRead, serverGreeting, clientHandshake,
                   replyErr, serverResponse, buf, cliNet, upNet, gateVars, dbVars,
                   env, pureVars, mainVars>>

\* lines 909-911: readPacketWithTimeout(mysqlConn, 30 s); the read deadline
\* is cleared when it returns.  A read that fails has consumed the bytes that
\* had arrived, which are less than a frame.
ReadReply(s) ==
    /\ pc[s] = "readReply"
    /\ LET avail == Avail(upSent[s], upRead[s]) IN
       \/ /\ age[s] < 2 /\ FrameReady(avail)
          /\ serverResponse' = [serverResponse EXCEPT ![s] = readPacket(avail).FullPacket]
          /\ upRead' = [upRead EXCEPT ![s] = @ + Len(readPacket(avail).FullPacket)]
          /\ replyErr' = [replyErr EXCEPT ![s] = "nil"]
          /\ pc' = [pc EXCEPT ![s] = "writeReply"]
       \/ /\ age[s] < 2 /\ ~FrameReady(avail) /\ upPeer[s] = "closed"
          /\ upRead' = [upRead EXCEPT ![s] = Len(upSent[s])]
          /\ replyErr' = [replyErr EXCEPT ![s] = "eof"]
          /\ pc' = [pc EXCEPT ![s] = "writeOK"]
          /\ UNCHANGED serverResponse
       \/ /\ age[s] = 2
          /\ \E k \in 0..Len(avail) :
                /\ ~FrameReady(SubSeq(avail, 1, k))
                /\ upRead' = [upRead EXCEPT ![s] = @ + k]
          /\ replyErr' = [replyErr EXCEPT ![s] = "timeout"]
          /\ pc' = [pc EXCEPT ![s] = "writeOK"]
          /\ UNCHANGED serverResponse
    /\ UNCHANGED <<fwd, age, toUp, toCli, cliRead, cliClosed, upClosed, serverGreeting,
                   clientHandshake, buf, cliNet, upNet, gateVars, dbVars, env, pureVars, mainVars>>

\* lines 935-944: the handshake is over, the forwarder goroutine starts and
\* handleConnection goes on to io.Copy
StartRelay(s) ==
    /\ pc' = [pc EXCEPT ![s] = "copy"]
    /\ fwd' = [fwd EXCEPT ![s] = "read"]
    /\ UNCHANGED <<upClosed, cliClosed>>

\* lines 912-922: any error of the read: writePacket(clientConn, okPacket)
WriteOK(s) ==
    /\ pc[s] = "writeOK"
    /\ \E r \in CliWriteOutcomes(s) :
        \/ /\ r = "nil"
           /\ toCli' = [toCli EXCEPT ![s] = @ \o writePacket(okPacket)]
           /\ StartRelay(s)
        \/ /\ r = "err"
           /\ ReturnFailed(s)
           /\ UNCHANGED <<toCli, fwd>>
    /\ UNCHANGED <<age, toUp, cliRead, upRead, serverGreeting, clientHandshake,
                   replyErr, serverResponse, buf, cliNet, upNet, gateVars, dbVars,
                   env, pureVars, mainVars>>

\* lines 923-933: writePacket(clientConn, serverResponse)
WriteReply(s) ==
    /\ pc[s] = "writeReply"
    /\ \E r \in CliWriteOutcomes(s) :
        \/ /\ r = "nil"
           /\ toCli' = [toCli EXCEPT ![s] = @ \o serverResponse[s]]
           /\ StartRelay(s)
        \/ /\ r = "err"
           /\ ReturnFailed(s)
           /\ UNCHANGED <<toCli, fwd>>
    /\ UNCHANGED <<age, toUp, cliRead, upRead, serverGreeting, clientHandshake,
                   replyErr, serverResponse, buf, cliNet, upNet, gateVars, dbVars,
                   env, pureVars, mainVars>>

\* line 947: io.Copy(clientConn, mysqlConn), one round of its loop: what has
\* arrived is read (mysqlConn has no read deadline any more) and written to
\* clientConn; it returns at the end of the stream or when the write fails
CopyStep(s) ==
    /\ pc[s] = "copy"
    /\ LET avail == Avail(upSent[s], upRead[s]) IN
       \/ /\ avail # <<>>
          /\ upRead' = [upRead EXCEPT ![s] = Len(upSent[s])]
          /\ \E r \in CliWriteOutcomes(s) :
                \/ /\ r = "nil"
                   /\ toCli' = [toCli EXCEPT ![s] = @ \o avail]
                   /\ UNCHANGED pc
                \/ /\ r = "err"
                   /\ pc' = [pc EXCEPT ![s] = "wait"]
                   /\ UNCHANGED toCli
       \/ /\ avail = <<>> /\ upPeer[s] = "closed"
          /\ pc' = [pc EXCEPT ![s] = "wait"]
          /\ UNCHANGED <<upRead, toCli>>
    /\ UNCHANGED <<fwd, age, toUp, cliRead, cliClosed, upClosed, serverGreeting,
                   clientHandshake, replyErr, serverResponse, buf, cliNet, upNet,
                   gateVars, dbVars, env, pureVars, mainVars>>

\* Join without the receive from done
Join_NoWait(s) ==
    /\ pc[s] = "wait"
    /\ pc' = [pc EXCEPT ![s] = "closed"]
    /\ upClosed' = [upClosed EXCEPT ![s] = @ + 1]
    /\ cliClosed' = [cliClosed EXCEPT ![s] = @ + 1]
    /\ UNCHANGED <<fwd, age, toUp, toCli, cliRead, upRead, serverGreeting,
                   clientHandshake, replyErr, serverResponse, buf, cliNet, upNet,
                   gateVars, dbVars, env, pureVars, mainVars>>

\* lines 949-952: <-done, then the return with its two deferred Close calls
Join(s) ==
    /\ pc[s] = "wait" /\ fwd[s] = "done"
    /\ pc' = [pc EXCEPT ![s] = "closed"]
    /\ upClosed' = [upClosed EXCEPT ![s] = @ + 1]
    /\ cliClosed' = [cliClosed EXCEPT ![s] = @ + 1]
    /\ UNCHANGED <<fwd, age, toUp, toCli, cliRead, upRead, serverGreeting,
                   clientHandshake, replyErr, serverResponse, buf, cliNet, upNet,
                   gateVars, dbVars, env, pureVars, mainVars>>

\* --------------------------------------------- forwardWithUseInterception
BufferSize == 4096

Min(a, b) == IF a < b THEN a ELSE b

\* lines 699-724: clientConn.Read(buffer), then the classification of
\* buffer[:n] and the call of ensureDatabaseExists for a USE command
ForwardRead(s) ==
    /\ fwd[s] = "read"
    /\ LET avail == Avail(cliSent[s], cliRead[s])
           n == Min(BufferSize, Len(avail))
           data == SubSeq(avail, 1, n)
       IN
       \/ /\ age[s] = 0 /\ n > 0
          /\ buf' = [buf EXCEPT ![s] = data]
          /\ cliRead' = [cliRead EXCEPT ![s] = @ + n]
          /\ IF isUseCommand(data) /\ extractDatabaseFromUseCommand(data) # <<>>
             THEN /\ StartCall(s, extractDatabaseFromUseCommand(data), "use")
                  /\ fwd' = [fwd EXCEPT ![s] = "ensure"]
             ELSE /\ UNCHANGED ens
                  /\ fwd' = [fwd EXCEPT ![s] = "write"]
       \/ /\ \/ age[s] >= 1
             \/ n = 0 /\ cliPeer[s] = "closed"
          /\ fwd' = [fwd EXCEPT ![s] = "done"]
          /\ UNCHANGED <<buf, cliRead, ens>>
    /\ UNCHANGED <<pc, age, toUp, toCli, upRead, cliClosed, upClosed, serverGreeting,
                   clientHandshake, replyErr, serverResponse, cliNet, upNet, calls,
                   dbVars, env, pureVars, mainVars>>

\* ForwardGateReturn that returns from the forwarder on an error
ForwardGateReturn_AbortOnErr(s) ==
    /\ fwd[s] = "ensure" /\ ens[s].pc = "ret"
    /\ fwd' = [fwd EXCEPT ![s] = IF ens[s].err # "nil" THEN "done" ELSE "write"]
    /\ ens' = [ens EXCEPT ![s] = IdleCall]
    /\ UNCHANGED <<pc, age, toUp, toCli, cliRead, upRead, cliClosed, upClosed,
                   serverGreeting, clientHandshake, replyErr, serverResponse, buf,
                   cliNet, upNet, calls, dbVars, env, pureVars, mainVars>>

\* ForwardGateReturn that calls ensureDatabaseExists again after an error
ForwardGateReturn_RetryOnErr(s) ==
    /\ fwd[s] = "ensure" /\ ens[s].pc = "ret"
    /\ IF ens[s].err # "nil"
       THEN /\ StartCall(s, ens[s].name, "use")
            /\ UNCHANGED fwd
       ELSE /\ fwd' = [fwd EXCEPT ![s] = "write"]
            /\ ens' = [ens EXCEPT ![s] = IdleCall]
    /\ UNCHANGED <<pc, age, toUp, toCli, cliRead, upRead, cliClosed, upClosed,
                   serverGreeting, clientHandshake, replyErr, serverResponse, buf,
                   cliNet, upNet, calls, dbVars, env, pureVars, mainVars>>

\* lines 717-722: ensureDatabaseExists has returned to the forwarder; an
\* error is logged only
ForwardGateReturn(s) ==
    /\ fwd[s] = "ensure" /\ ens[s].pc = "ret"
    /\ fwd' = [fwd EXCEPT ![s] = "write"]
    /\ ens' = [ens EXCEPT ![s] = IdleCall]
    /\ UNCHANGED <<pc, age, toUp, toCli, cliRead, upRead, cliClosed, upClosed,
                   serverGreeting, clientHandshake, replyErr, serverResponse, buf,
                   cliNet, upNet, calls, dbVars, env, pureVars, mainVars>>

\* ForwardWrite that forwards the command without the packet header
ForwardWrite_PayloadOnly(s) ==
    /\ fwd[s] = "write"
    /\ \E r \in UpWriteOutcomes(s) :
        \/ /\ r = "nil"
           /\ toUp' = [toUp EXCEPT ![s] = @ \o Slice(buf[s], 4, Len(buf[s]))]
           /\ fwd' = [fwd EXCEPT ![s] = "read"]
        \/ /\ r = "err"
           /\ fwd' = [fwd EXCEPT ![s] = "done"]
           /\ UNCHANGED toUp
    /\ UNCHANGED <<pc, age, toCli, cliRead, upRead, cliClosed, upClosed, serverGreeting,
                   clientHandshake, replyErr, serverResponse, buf, cliNet, upNet,
                   gateVars, dbVars, env, pureVars, mainVars>>

\* lines 726-732: mysqlConn.Write(buffer[:n])
ForwardWrite(s) ==
    /\ fwd[s] = "write"
    /\ \E r \in UpWriteOutcomes(s) :
        \/ /\ r = "nil"
           /\ toUp' = [toUp EXCEPT ![s] = @ \o buf[s]]
           /\ fwd' = [fwd EXCEPT ![s] = "read"]
        \/ /\ r = "err"
           /\ fwd' = [fwd EXCEPT ![s] = "done"]
           /\ UNCHANGED toUp
    /\ UNCHANGED <<pc, age, toCli, cliRead, upRead, cliClosed, upClosed, serverGreeting,
                   clientHandshake, replyErr, serverResponse, buf, cliNet, upNet,
                   gateVars, dbVars, env, pureVars, mainVars>>

\* ------------------------------------------------- ensureDatabaseExists
\* CallReturns without the deferred db.Close()
CallReturns_LeavesOpen(s, err) ==
    /\ ens' = [ens EXCEPT ![s].pc = "ret", ![s].err = err]
    /\ calls' = [calls EXCEPT ![s] =
                    Append(@, [site |-> ens[s].site, name |-> ens[s].name, err |-> err])]

\* a return of ensureDatabaseExists: the deferred db.Close() runs
CallReturns(s, err) ==
    /\ ens' = [ens EXCEPT ![s].pc = "ret", ![s].err = err,
                          ![s].conn = IF @ = "open" THEN "closed" ELSE @]
    /\ calls' = [calls EXCEPT ![s] =
                    Append(@, [site |-> ens[s].site, name |-> ens[s].name, err |-> err])]

\* EnsValidate without the validation
EnsValidate_NoCheck(s) ==
    /\ ens[s].pc = "validate"
    /\ ens' = [ens EXCEPT ![s].pc = "ping", ![s].conn = "open"]
    /\ adminLog' = adminLog \cup {<<s, ens[s].name>>}
    /\ UNCHANGED <<sessVars, cliNet, upNet, calls, schemas, createLog, env, pureVars, mainVars>>

\* lines 798-812: validateDatabaseName, then sql.Open with the fixed DSN
EnsValidate(s) ==
    /\ ens[s].pc = "validate"
    /\ IF validateDatabaseName(ens[s].name) # "nil"
       THEN /\ CallReturns(s, "invalid")
            /\ UNCHANGED adminLog
       ELSE /\ ens' = [ens EXCEPT ![s].pc = "ping", ![s].conn = "open"]
            /\ adminLog' = adminLog \cup {<<s, ens[s].name>>}
            /\ UNCHANGED calls
    /\ UNCHANGED <<sessVars, cliNet, upNet, schemas, createLog, env, pureVars, mainVars>>

\* lines 814-821: db.PingContext
EnsPing(s) ==
    /\ ens[s].pc = "ping"
    /\ \/ /\ ens' = [ens EXCEPT ![s].pc = "query"]
          /\ UNCHANGED <<calls, env>>
       \/ /\ env.faults > 0
          /\ CallReturns(s, "ping")
          /\ Spend("faults")
    /\ UNCHANGED <<sessVars, cliNet, upNet, dbVars, pureVars, mainVars>>

\* EnsQuery that returns nil whatever the count is
EnsQuery_SkipCreate(s) ==
    /\ ens[s].pc = "query"
    /\ \/ /\ CallReturns(s, "nil")
          /\ UNCHANGED env
       \/ /\ env.faults > 0
          /\ CallReturns(s, "query")
          /\ Spend("faults")
    /\ UNCHANGED <<sessVars, cliNet, upNet, dbVars, pureVars, mainVars>>

\* EnsQuery that goes on to CREATE whatever the count is
EnsQuery_AlwaysCreate(s) ==
    /\ ens[s].pc = "query"
    /\ \/ /\ ens' = [ens EXCEPT ![s].pc = "create"]
          /\ UNCHANGED <<calls, env>>
       \/ /\ env.faults > 0
          /\ CallReturns(s, "query")
          /\ Spend("faults")
    /\ UNCHANGED <<sessVars, cliNet, upNet, dbVars, pureVars, mainVars>>

\* lines 823-831 and 839-843: the existence query; the call returns nil when
\* the schema is there
EnsQuery(s) ==
    /\ ens[s].pc = "query"
    /\ \/ /\ IF ens[s].name \in schemas
             THEN CallReturns(s, "nil")
             ELSE /\ ens' = [ens EXCEPT ![s].pc = "create"]
                  /\ UNCHANGED calls
          /\ UNCHANGED env
       \/ /\ env.faults > 0
          /\ CallReturns(s, "query")
          /\ Spend("faults")
    /\ UNCHANGED <<sessVars, cliNet, upNet, dbVars, pureVars, mainVars>>

\* lines 832-838: CREATE DATABASE `name`, which the server refuses (error
\* 1007, "create_exists") when the schema is there by now
EnsCreate(s) ==
    /\ ens[s].pc = "create"
    /\ createLog' = createLog \cup {<<s, ens[s].name>>}
    /\ \/ /\ IF ens[s].name \in schemas
             THEN /\ CallReturns(s, "create_exists")
                  /\ UNCHANGED schemas
             ELSE /\ CallReturns(s, "nil")
                  /\ schemas' = schemas \cup {ens[s].name}
          /\ UNCHANGED env
       \/ /\ env.faults > 0
          /\ CallReturns(s, "create_failed")
          /\ Spend("faults")
          /\ UNCHANGED schemas
    /\ UNCHANGED <<sessVars, cliNet, upNet, adminLog, pureVars, mainVars>>

\* ------------------------------------------------------- specifications
\* the steps of the forwarder goroutine
ForwarderSteps(s) ==
    \/ ForwardRead(s)
    \/ ForwardGateReturn(s)
    \/ ForwardWrite(s)

\* the steps of a call of ensureDatabaseExists
EnsureSteps(s) ==
    \/ EnsValidate(s)
    \/ EnsPing(s)
    \/ EnsQuery(s)
    \/ EnsCreate(s)

Next ==
    \/ AcceptError
    \/ \E n \in ExternalNames : OtherClientCreates(n)
    \/ \E s \in Sessions :
        \/ Accept(s)
        \/ Dial(s)
        \/ ReadGreeting(s)
        \/ WriteGreeting(s)
        \/ ReadHandshake(s)
        \/ GateReturn(s)
        \/ WriteHandshake(s)
        \/ ReadReply(s)
        \/ WriteOK(s)
        \/ WriteReply(s)
        \/ CopyStep(s)
        \/ Join(s)
        \/ ForwardRead(s)
        \/ ForwardGateReturn(s)
        \/ ForwardWrite(s)
        \/ EnsValidate(s)
        \/ EnsPing(s)
        \/ EnsQuery(s)
        \/ EnsCreate(s)
        \/ ClientSend(s)
        \/ ClientClose(s)
        \/ UpstreamSend(s)
        \/ UpstreamClose(s)
        \/ Tick(s)

Spec == Init /\ [][Next]_vars

\* NumSessions connections, a lean environment: the sessions' calls of
\* ensureDatabaseExists interleave
InitRace ==
    /\ InitSessions
    /\ env = [conns |-> NumSessions, faults |-> RaceFaults, frames |-> RaceClientFrames]
    /\ callArg = <<>>
    /\ callRet = "none"

SpecRace == InitRace /\ [][Next]_vars

\* time passes whatever else happens, and in a relaying session every
\* goroutine that can take a step takes one in the end (io.Copy and the
\* receive from done, the forwarder, a call of ensureDatabaseExists, whose
\* steps all have a 10 s timeout); nothing is asked of the client, the
\* upstream and the listener.  Deadlines pass and replies arrive in parts
\* without a bound on how often.
NextLive ==
    \/ Next
    \/ \E s \in Sessions :
        \/ Elapse(s)
        \/ Trickle(s)

Fairness ==
    \A s \in Sessions :
        /\ WF_vars(CopyStep(s))
        /\ WF_vars(Join(s))
        /\ WF_vars(ForwarderSteps(s))
        /\ WF_vars(EnsureSteps(s))
        /\ WF_vars(Elapse(s))

SpecLive == Init /\ [][NextLive]_vars /\ Fairness

\* ------------------------------------------ validateDatabaseName alone
NameAlphabet == {115, 121, 83, 89, 100, 95, 45, 55, 32, 96}  \* s y S Y d _ - 7 space `

ShortNames == UNION {[1..k -> NameAlphabet] : k \in 0..MaxNameLen}

LongNames ==
    {STR_information_schema, ToUpper(STR_information_schema),
     STR_mysql, ToUpper(STR_mysql), <<100>> \o STR_mysql \o <<55>>,
     <<77, 121, 83, 113, 76>>,                      \* "MySqL"
     <<109, 121, 45, 115, 113, 108>>,               \* "my-sql"
     <<109, 121, 115, 113, 108, 59>>,               \* "mysql;"
     STR_performance_schema, <<95>> \o ToUpper(STR_performance_schema),
     <<105, 110, 102, 111, 114, 109, 97, 116, 105, 111, 110, 45, 115, 99, 104, 101, 109, 97>>,  \* "information-schema"
     <<111, 114, 100, 101, 114, 115>>,              \* "orders"
     <<111, 114, 100, 101, 114, 115, 59>>,          \* "orders;"
     <<100, 98, 0>>,                                \* "db\x00"
     <<100, 98, 10>>}                               \* "db\n"

NameInputs == ShortNames \cup LongNames

InitValidate ==
    /\ InitSessions
    /\ env = [conns |-> 0, faults |-> 0, frames |-> 0]
    /\ callArg \in NameInputs
    /\ callRet = "none"

\* one call of validateDatabaseName
CallValidate ==
    /\ callRet = "none"
    /\ callRet' = validateDatabaseName(callArg)
    /\ UNCHANGED <<sessVars, cliNet, upNet, gateVars, dbVars, env, callArg, mainVars>>

SpecValidate == InitValidate /\ [][CallValidate]_vars

\* ------------------------------------------- readPacket and writePacket alone
NoResult == <<>>

PayloadAlphabet == {0, 1, 255}

ShortPayloads == UNION {[1..k -> PayloadAlphabet] : k \in 0..MaxPayloadLen}

\* payloads whose length needs the second and the third length byte
LongPayloads == {[i \in 1..n |-> 7] : n \in {256, 65536 + 513}}

SequenceIDs == {0, 2, 255}

\* the packets handleConnection holds: those readPacket returned for a frame
\* on the wire, and the one it builds itself
CodecInputs ==
    {readPacket(Frame(seq, payload)) :
        seq \in SequenceIDs, payload \in ShortPayloads \cup LongPayloads}
    \cup {okPacket}

InitCodec ==
    /\ InitSessions
    /\ env = [conns |-> 0, faults |-> 0, frames |-> 0]
    /\ callArg \in CodecInputs
    /\ callRet = NoResult

\* writePacket(conn, callArg), then readPacket at the other end of conn,
\* which is closed after the write: a stream that ends before the frame is
\* whole gives an error
CallCodec ==
    /\ callRet = NoResult
    /\ LET wire == writePacket(callArg)
       IN callRet' =
            IF FrameReady(wire)
            THEN <<[err |-> "nil", Length |-> readPacket(wire).Length,
                    SequenceID |-> readPacket(wire).SequenceID,
                    Payload |-> readPacket(wire).Payload]>>
            ELSE <<[err |-> "eof", Length |-> 0, SequenceID |-> 0, Payload |-> <<>>]>>
    /\ UNCHANGED <<sessVars, cliNet, upNet, gateVars, dbVars, env, callArg, mainVars>>

SpecCodec == InitCodec /\ [][CallCodec]_vars

\* ------------------------------------------- readPacketWithTimeout alone
\* what follows a frame on the wire
NextBytes == <<1, 0>>

\* a frame with a payload of 256 bytes, and the places it is cut at
LongFrame == Frame(0, [i \in 1..256 |-> 7])

LongCuts == {4, 5, 259, 260, 261}

\* the bytes a connection delivers before it ends: a frame and the start of
\* the next one, cut anywhere, and the way it ends
ReadInputs ==
    UNION {{[data |-> SubSeq(f \o NextBytes, 1, n), end |-> e] :
                n \in 0..(Len(f) + Len(NextBytes)), e \in {"eof", "timeout"}} :
            f \in {Frame(seq, payload) : seq \in SequenceIDs, payload \in ShortPayloads}}
    \cup {[data |-> SubSeq(LongFrame \o NextBytes, 1, n), end |-> e] :
            n \in LongCuts, e \in {"eof", "timeout"}}

InitRead ==
    /\ InitSessions
    /\ env = [conns |-> 0, faults |-> 0, frames |-> 0]
    /\ callArg \in ReadInputs
    /\ callRet = NoResult

\* one call of readPacketWithTimeout
CallRead ==
    /\ callRet = NoResult
    /\ callRet' = <<readPacketWithTimeout(callArg)>>
    /\ UNCHANGED <<sessVars, cliNet, upNet, gateVars, dbVars, env, callArg, mainVars>>

SpecRead == InitRead /\ [][CallRead]_vars

\* ------------------------------------------------ parseDatabaseName alone
NAME_myapp_db == <<109, 121, 97, 112, 112, 95, 100, 98>>  \* "myapp_db"
NAME_x_client_y == <<120>> \o STR_client \o <<121>>       \* "x_client_y"
NAME_attrs == <<12, 95, 111, 115>>                         \* "\x0c_os"

\* the 32 bytes before the username: all zero, or none zero
FixedParts == {[i \in 1..32 |-> 0], [i \in 1..32 |-> 64 + i]}

TailAlphabet == {0, 1, 12, 100, 255}  \* NUL, a length of 1, \x0c, d, a length of 255

ShortTails == UNION {[1..k -> TailAlphabet] : k \in 0..MaxTailLen}

\* what follows the password: nothing, a name, attributes, an authentication
\* method with or without something after it; the last field with or
\* without its terminator
TrailingFields ==
    LET names == {NAME_myapp_db, NAME_x_client_y, NAME_attrs, NAME_db \o <<12>>,
                  STR_sha256_password, STR_mysql_native_password \o <<49>>}
        auths == {STR_mysql_native_password, STR_caching_sha2_password, STR_sha256_password}
        ends == {<<>>, <<0>>}
    IN {<<>>, <<0>>, <<0>> \o NAME_myapp_db}
       \cup {n \o e : n \in names \cup auths, e \in ends}
       \cup {a \o <<0>> \o n \o e : a \in auths, n \in names \cup {<<>>}, e \in ends}
       \cup {a \o <<0>> \o b \o <<0>> \o NAME_myapp_db : a \in auths, b \in auths}

\* well-formed responses and responses cut short in every field
LongPayloads32 ==
    {HandshakePayload(USER_root, pw, t) : pw \in {<<>>, <<7, 0>>}, t \in TrailingFields}
    \cup {[i \in 1..n |-> 65] : n \in {0, 1, 31, 32, 40}}
    \cup {[i \in 1..32 |-> 0] \o USER_root \o <<0, n>> \o NAME_myapp_db : n \in {7, 8, 9, 255}}

ParseInputs ==
    {f \o t : f \in FixedParts, t \in ShortTails} \cup LongPayloads32

InitParse ==
    /\ InitSessions
    /\ env = [conns |-> 0, faults |-> 0, frames |-> 0]
    /\ callArg \in ParseInputs
    /\ callRet = NoResult

\* one call of parseDatabaseName
CallParse ==
    /\ callRet = NoResult
    /\ callRet' = <<parseDatabaseName(callArg)>>
    /\ UNCHANGED <<sessVars, cliNet, upNet, gateVars, dbVars, env, callArg, mainVars>>

SpecParse == InitParse /\ [][CallParse]_vars

\* ------------------------------------------------- the classifier alone
NAME_orders == <<111, 114, 100, 101, 114, 115>>   \* "orders"
STR_use_lower == <<117, 115, 101, 32>>            \* "use "
STR_SELECT_1 == <<83, 69, 76, 69, 67, 84, 32, 49>>  \* "SELECT 1"

\* the first four bytes of a command
CommandStarts ==
    {STR_USE, STR_use_lower, <<85, 115, 69, 32>>,      \* "USE ", "use ", "UsE "
     <<85, 83, 69, 59>>, <<85, 83, 69, 0>>,           \* "USE;", "USE\x00"
     <<32, 85, 83, 69>>, <<3, 85, 83, 69>>,           \* " USE", COM_QUERY "USE"
     <<83, 69, 76, 69>>}                              \* "SELE"

RestAlphabet == {111, 79, 32, 59, 0}  \* o O space ; NUL

Rests == UNION {[1..k -> RestAlphabet] : k \in 0..MaxRestLen}

\* what the forwarder may find in buffer[:n]
ClassifyInputs ==
    {Frame(0, c \o r) : c \in CommandStarts, r \in Rests}
    \cup {Frame(0, c \o NAME_orders \o e) :
            c \in {STR_USE, STR_use_lower}, e \in {<<>>, <<59>>, <<32>>, <<0, 120>>}}
    \cup {Frame(0, STR_SELECT_1), Frame(0, <<3>> \o STR_USE \o NAME_orders)}
    \cup {SubSeq(Frame(0, STR_USE \o NAME_orders), 1, n) : n \in 1..9}

InitClassify ==
    /\ InitSessions
    /\ env = [conns |-> 0, faults |-> 0, frames |-> 0]
    /\ callArg \in ClassifyInputs
    /\ callRet = NoResult

\* lines 713-715: the name ensureDatabaseExists is called with, or the empty
\* name when it is not called
CallClassify ==
    /\ callRet = NoResult
    /\ callRet' = <<IF isUseCommand(callArg)
                    THEN extractDatabaseFromUseCommand(callArg) ELSE <<>>>>
    /\ UNCHANGED <<sessVars, cliNet, upNet, gateVars, dbVars, env, callArg, mainVars>>

SpecClassify == InitClassify /\ [][CallClassify]_vars

\* ================================================================ claims
\* the schema name of the handshake response a session has read
HandshakeName(s) ==
    IF clientHandshake[s] = <<>> THEN <<>>
    ELSE parseDatabaseName(Slice(clientHandshake[s], 4, Len(clientHandshake[s])))

\* session s has completed a call of ensureDatabaseExists(name) with result err
HasCall(s, site, name, err) ==
    \E i \in DOMAIN calls[s] :
        calls[s][i] = [site |-> site, name |-> name, err |-> err]

Relaying(s) == pc[s] \in {"copy", "wait"}

ReservedNames ==
    {STR_information_schema, STR_mysql, STR_performance_schema, STR_sys}

\* r occurs in n, letters compared without case
ContainsFold(n, r) ==
    \E i \in 1..(Len(n) - Len(r) + 1) :
        \A j \in 1..Len(r) : ToLowerByte(n[i + j - 1]) = r[j]

\* n matches ^[A-Za-z0-9_-]+$
MatchesNamePattern(n) ==
    /\ n # <<>>
    /\ \A i \in 1..Len(n) : n[i] \in (48..57) \cup (65..90) \cup (97..122) \cup {95, 45}

AcceptableName(n) ==
    MatchesNamePattern(n) /\ \A r \in ReservedNames : ~ContainsFold(n, r)

\* C1: once the handshake response of a session that names a schema is on
\* the upstream connection, a handshake-site call of ensureDatabaseExists for
\* that name has returned nil and the schema exists on the upstream.
C1_GateBeforeForward ==
    \A s \in Sessions :
        (toUp[s] # <<>> /\ HandshakeName(s) # <<>>) =>
            /\ SubSeq(toUp[s], 1, Len(clientHandshake[s])) = clientHandshake[s]
            /\ HasCall(s, "handshake", HandshakeName(s), "nil")
            /\ HandshakeName(s) \in schemas

C1_Witness ==
    \E s \in Sessions :
        /\ toUp[s] = clientHandshake[s]
        /\ HandshakeName(s) = NAME_db
        /\ <<s, NAME_db>> \in createLog

\* C2: after a handshake-site call of ensureDatabaseExists has returned an
\* error, the session is failed (or about to return) and nothing was or is
\* written to the upstream connection, and no forwarder runs.
C2_GateErrorEndsSession ==
    \A s \in Sessions :
        (\E i \in DOMAIN calls[s] :
            calls[s][i].site = "handshake" /\ calls[s][i].err # "nil") =>
            /\ toUp[s] = <<>>
            /\ fwd[s] = "none"
            /\ \/ pc[s] = "failed"
               \/ pc[s] = "gate" /\ ens[s].pc = "ret" /\ ens[s].err # "nil"

C2_Witness ==
    \E s \in Sessions :
        /\ pc[s] = "failed"
        /\ \E i \in DOMAIN calls[s] :
              calls[s][i].site = "handshake" /\ calls[s][i].err \in {"ping", "query", "create_failed"}
        /\ Len(cliSent[s]) > Len(clientHandshake[s])
        /\ toUp[s] = <<>>

\* C3: a session whose handshake names information_schema issues no CREATE
\* statement, writes nothing to the upstream connection and is failed once
\* the call has returned.
C3_InformationSchemaRejected ==
    \A s \in Sessions :
        HandshakeName(s) = STR_information_schema =>
            /\ toUp[s] = <<>>
            /\ \A e \in createLog : e[1] # s
            /\ \/ pc[s] = "failed"
               \/ pc[s] = "gate" /\ ens[s].pc \in {"validate", "ret"}

C3_Witness ==
    \E s \in Sessions :
        /\ HandshakeName(s) = STR_information_schema
        /\ pc[s] = "failed"
        /\ HasCall(s, "handshake", STR_information_schema, "invalid")

\* C4: no administrative connection is opened and no CREATE statement is
\* issued, from either call site, for a name that is not acceptable.
C4_OnlyAcceptableNamesReachUpstream ==
    /\ \A e \in adminLog \cup createLog : AcceptableName(e[2])
    /\ \A s \in Sessions :
          ens[s].pc \in {"ping", "query", "create"} => AcceptableName(ens[s].name)
    /\ \A s \in Sessions : \A i \in DOMAIN calls[s] :
          calls[s][i].err # "invalid" => AcceptableName(calls[s][i].name)

C4_Witness ==
    \E s \in Sessions :
        /\ HasCall(s, "use", STR_sys, "invalid")
        /\ <<s, NAME_db>> \in createLog
        /\ <<s, STR_sys>> \notin adminLog

\* C5: validateDatabaseName returns nil exactly for the acceptable names.
C5_ValidateExact ==
    callRet # "none" => (callRet = "nil" <=> AcceptableName(callArg))

C5_Witness ==
    /\ callRet = "not_allowed"
    /\ MatchesNamePattern(callArg)
    /\ ContainsFold(callArg, STR_sys)
    /\ callArg # ToLower(callArg)

\* C6: a call of ensureDatabaseExists for an acceptable name that met no
\* failure of the upstream (ping, query, CREATE) and ends with the schema
\* present returns nil, also when another session created the schema between
\* its existence query and its CREATE.
C6_RaceIsBenign ==
    \A s \in Sessions : \A i \in DOMAIN calls[s] :
        (/\ AcceptableName(calls[s][i].name)
         /\ calls[s][i].name \in schemas
         /\ calls[s][i].err \notin {"ping", "query", "create_failed"})
        => calls[s][i].err = "nil"

\* the synthesized acknowledgment as a frame: header with sequence number 2,
\* then the 7-byte payload
AckFrame == Frame(okPacket.SequenceID, okPacket.Payload)

\* the bytes written to the client after the greeting start with AckFrame
AckDelivered(s) ==
    /\ Len(toCli[s]) >= Len(serverGreeting[s]) + Len(AckFrame)
    /\ SubSeq(toCli[s], Len(serverGreeting[s]) + 1,
              Len(serverGreeting[s]) + Len(AckFrame)) = AckFrame

\* C7: once the wait for the upstream's reply has timed out and the
\* acknowledgment step is over, the client has been sent the acknowledgment
\* frame and the session is relaying (or has finished relaying).
C7_TimeoutSynthesizesAck ==
    \A s \in Sessions :
        (replyErr[s] = "timeout" /\ pc[s] # "writeOK") =>
            /\ pc[s] \in {"copy", "wait", "closed"}
            /\ AckDelivered(s)

\* C8: a session whose wait for the upstream's reply failed with something
\* other than a timeout (end of stream, short read) never relays.
C8_NonTimeoutReplyFailureEndsSession ==
    \A s \in Sessions :
        replyErr[s] = "eof" => pc[s] \notin {"copy", "wait", "closed"}

\* C9: when ensureDatabaseExists returns an error to the forwarder, the
\* forwarder goes on to write the bytes it read, unchanged, the session keeps
\* relaying, and a successful write appends exactly those bytes and returns
\* the forwarder to reading.
C9_Step(s) ==
    /\ (fwd[s] = "ensure" /\ ens[s].pc = "ret" /\ ens[s].err # "nil" /\ ens'[s] # ens[s]) =>
          /\ fwd'[s] = "write"
          /\ buf'[s] = buf[s]
          /\ buf[s] = SubSeq(cliSent[s], cliRead[s] - Len(buf[s]) + 1, cliRead[s])
          /\ toUp'[s] = toUp[s]
          /\ pc[s] \in {"copy", "wait"} /\ pc'[s] \in {"copy", "wait"}
    /\ (fwd[s] = "write" /\ toUp'[s] # toUp[s]) =>
          /\ toUp'[s] = toUp[s] \o buf[s]
          /\ fwd'[s] = "read"

C9_UseGateErrorSwallowed == [][\A s \in Sessions : C9_Step(s)]_vars

C9_Witness ==
    \E s \in Sessions :
        /\ HasCall(s, "use", STR_sys, "invalid")
        /\ toUp[s] = clientHandshake[s] \o FRAME_use_sys \o FRAME_query
        /\ fwd[s] = "read" /\ pc[s] = "copy"

RECURSIVE FramesOf(_)
\* the whole frames a byte stream starts with
FramesOf(b) ==
    IF FrameReady(b)
    THEN <<readPacket(b).FullPacket>>
         \o FramesOf(SubSeq(b, Len(readPacket(b).FullPacket) + 1, Len(b)))
    ELSE <<>>

\* C10: every whole client frame relayed to the upstream whose command
\* region starts with "USE " and carries a name was preceded by a call of
\* ensureDatabaseExists for that name.
C10_EveryUseFrameGated ==
    \A s \in Sessions :
        LET fs == FramesOf(Avail(toUp[s], Len(clientHandshake[s])))
        IN \A i \in DOMAIN fs :
              (isUseCommand(fs[i]) /\ extractDatabaseFromUseCommand(fs[i]) # <<>>) =>
                  \E j \in DOMAIN calls[s] :
                      /\ calls[s][j].site = "use"
                      /\ calls[s][j].name = extractDatabaseFromUseCommand(fs[i])

\* b is exactly one whole frame: a 4-byte header and as many payload bytes as
\* the header says
OneWholeFrame(b) ==
    FrameReady(b) /\ Len(b) = 4 + packetLength(SubSeq(b, 1, 4))

\* C11: what the forwarder has read from the client in one read and is about
\* to write to the upstream in one write is exactly one whole frame, and so
\* is every packet the handshake phase writes.
C11_OneFramePerReadAndWrite ==
    \A s \in Sessions :
        /\ fwd[s] \in {"ensure", "write"} => OneWholeFrame(buf[s])
        /\ pc[s] = "writeGreeting" => OneWholeFrame(serverGreeting[s])
        /\ pc[s] = "writeHandshake" => OneWholeFrame(clientHandshake[s])
        /\ pc[s] = "writeReply" => OneWholeFrame(serverResponse[s])

IsPrefix(a, b) == Len(a) <= Len(b) /\ SubSeq(b, 1, Len(a)) = a

\* C12: the bytes written to the upstream connection are at every moment a
\* prefix of the bytes that arrived from the client, and what the forwarder
\* holds between its read and its write is the next stretch of them.
C12_ClientToUpstreamPrefix ==
    \A s \in Sessions :
        /\ IsPrefix(toUp[s], cliSent[s])
        /\ fwd[s] \in {"ensure", "write"} =>
              toUp[s] \o buf[s] = SubSeq(cliSent[s], 1, cliRead[s])
        /\ fwd[s] = "read" => Len(toUp[s]) = cliRead[s]

C12_Witness ==
    \E s \in Sessions :
        /\ HasCall(s, "use", NAME_t, "nil")
        /\ toUp[s] = clientHandshake[s] \o FRAME_query \o FRAME_use_t
        /\ toUp[s] = cliSent[s]

\* C13: a session is closed only when the forwarder and io.Copy have both
\* returned; a session that has ended (closed or failed) has closed the
\* client socket once and the upstream socket once if it was opened; a
\* session that has not ended has closed nothing, so no socket is closed
\* while a directional copy runs.
C13_CloseOnceAfterBothCopies ==
    \A s \in Sessions :
        /\ pc[s] = "closed" => fwd[s] = "done"
        /\ pc[s] \in {"failed", "closed"} =>
              /\ fwd[s] \in {"none", "done"}
              /\ cliClosed[s] = 1
              /\ upClosed[s] = IF upPeer[s] = "none" THEN 0 ELSE 1
        /\ pc[s] \notin {"failed", "closed"} => cliClosed[s] = 0 /\ upClosed[s] = 0
        /\ fwd[s] \in {"read", "ensure", "write"} => pc[s] \in {"copy", "wait"}

C13_Witness ==
    \E s \in Sessions :
        /\ pc[s] = "closed" /\ fwd[s] = "done"
        /\ cliClosed[s] = 1 /\ upClosed[s] = 1
        /\ cliPeer[s] = "open"

\* C14: in a session that got to relaying, a directional copy returns (the
\* forwarder is done, io.Copy is over) only after the client or the
\* upstream has ended its connection: no deadline of the relay ends it.
C14_DeadlineEndsWithHandshake ==
    \A s \in Sessions :
        (fwd[s] = "done" \/ pc[s] \in {"wait", "closed"}) =>
            (cliPeer[s] = "closed" \/ upPeer[s] = "closed")

\* C15: for the frame a packet stands for (its sequence number, its payload,
\* the payload's length), reading what writePacket emits yields that
\* length, sequence number and payload.
C15_FramingRoundTrips ==
    callRet # NoResult =>
        /\ callRet[1].err = "nil"
        /\ callRet[1].Length = Len(callArg.Payload)
        /\ callRet[1].SequenceID = callArg.SequenceID
        /\ callRet[1].Payload = callArg.Payload

\* the position (from 1) of the first NUL of p at or after position from,
\* Len(p) + 1 when there is none
FirstNul(p, from) ==
    IF \E j \in from..Len(p) : p[j] = 0
    THEN CHOOSE j \in from..Len(p) : p[j] = 0 /\ \A k \in from..(j - 1) : p[k] # 0
    ELSE Len(p) + 1

\* the NUL-terminated or end-terminated field of p that starts at position from
FieldAt(p, from) == SubSeq(p, from, FirstNul(p, from) - 1)

AuthMethodNames ==
    {STR_mysql_native_password, STR_caching_sha2_password, STR_sha256_password}

\* a candidate is kept when it is non-empty and has neither byte 0x0c nor
\* the substring _client_
KeepCandidate(c) ==
    /\ c # <<>>
    /\ \A i \in DOMAIN c : c[i] # 12
    /\ ~\E i \in 1..(Len(c) - 7) : \A j \in 1..8 : c[i + j - 1] = STR_client[j]

\* the reference algorithm
ReferenceName(p) ==
    IF Len(p) < 32 \/ FirstNul(p, 33) >= Len(p) THEN <<>>
    ELSE LET first == FirstNul(p, 33) + 2 + p[FirstNul(p, 33) + 1]
         IN IF first > Len(p) THEN <<>>
            ELSE LET cand == IF FieldAt(p, first) \in AuthMethodNames
                             THEN FieldAt(p, FirstNul(p, first) + 1)
                             ELSE FieldAt(p, first)
                 IN IF KeepCandidate(cand) THEN cand ELSE <<>>

\* C16: parseDatabaseName returns what the reference algorithm returns, for
\* every payload; root with an empty password and myapp_db gives myapp_db,
\* also with mysql_native_password before myapp_db.
C16_ParseIsReference ==
    callRet # NoResult =>
        /\ callRet = <<ReferenceName(callArg)>>
        /\ callArg = HandshakePayload(USER_root, <<>>, NAME_myapp_db \o <<0>>) =>
              callRet = <<NAME_myapp_db>>
        /\ callArg = HandshakePayload(USER_root, <<>>,
                        STR_mysql_native_password \o <<0>> \o NAME_myapp_db \o <<0>>) =>
              callRet = <<NAME_myapp_db>>

C16_Witness ==
    /\ callArg = HandshakePayload(USER_root, <<>>,
                    STR_mysql_native_password \o <<0>> \o NAME_myapp_db \o <<0>>)
    /\ callRet = <<NAME_myapp_db>>

\* C17: parseDatabaseName never panics, and returns the empty name when the
\* payload is shorter than 32 bytes, when the username has no terminator,
\* when the password block runs to the end of the payload or past it, and
\* when nothing follows the password block.
C17_ParseNeverFails ==
    callRet # NoResult =>
        /\ callRet[1] # Panic
        /\ Len(callArg) < 32 => callRet[1] = <<>>
        /\ (\A j \in 33..Len(callArg) : callArg[j] # 0) => callRet[1] = <<>>
        /\ \A u \in 33..Len(callArg) :
              (/\ callArg[u] = 0
               /\ \A k \in 33..(u - 1) : callArg[k] # 0
               /\ \/ u = Len(callArg)
                  \/ u + 1 + callArg[u + 1] >= Len(callArg))
              => callRet[1] = <<>>

C17_Witness ==
    /\ callArg = [i \in 1..32 |-> 0] \o USER_root \o <<0, 255>> \o NAME_myapp_db
    /\ callRet = <<<<>>>>

\* bytes 4..7 of data are "USE " in any letter case
StartsWithUse(data) ==
    /\ Len(data) >= 8
    /\ data[5] \in {85, 117} /\ data[6] \in {83, 115} /\ data[7] \in {69, 101}
    /\ data[8] = 32

\* the bytes of data from byte 8 up to the first NUL, ';' or space, or to
\* the end
RunAfterUse(data) ==
    LET stops == {j \in 9..Len(data) : data[j] \in {0, 59, 32}}
        stop == IF stops = {} THEN Len(data) + 1
                ELSE CHOOSE j \in stops : \A k \in stops : j <= k
    IN SubSeq(data, 9, stop - 1)

\* C18: the classifier yields a name only when bytes 4..7 are "USE " in any
\* letter case, and then the run of bytes after them up to the first NUL,
\* ';' or space; otherwise no name and no call.  "USE orders;" and
\* "use orders " give orders, "SELECT 1" gives nothing.
C18_ClassifierYieldsRunAfterUse ==
    callRet # NoResult =>
        /\ callRet[1] = IF StartsWithUse(callArg) THEN RunAfterUse(callArg) ELSE <<>>
        /\ callArg = Frame(0, STR_USE \o NAME_orders \o <<59>>) => callRet[1] = NAME_orders
        /\ callArg = Frame(0, STR_use_lower \o NAME_orders \o <<32>>) => callRet[1] = NAME_orders
        /\ callArg = Frame(0, STR_SELECT_1) => callRet[1] = <<>>

C18_Witness ==
    /\ callArg = Frame(0, STR_use_lower \o NAME_orders \o <<32>>)
    /\ callRet = <<NAME_orders>>

\* C19: in a session provisioned for the schema of its handshake, every
\* whole frame "USE other" that has been written to the upstream, other
\* being another acceptable name, was preceded by a call of
\* ensureDatabaseExists for other from the forwarder, which opened its own
\* administrative connection and has returned.
C19_LaterUseProvisionedThenForwarded ==
    \A s \in Sessions :
        (HandshakeName(s) # <<>> /\ HasCall(s, "handshake", HandshakeName(s), "nil")) =>
            LET fs == FramesOf(Avail(toUp[s], Len(clientHandshake[s])))
            IN \A i \in DOMAIN fs :
                  LET other == extractDatabaseFromUseCommand(fs[i])
                  IN (/\ isUseCommand(fs[i])
                      /\ other # HandshakeName(s)
                      /\ AcceptableName(other))
                     => /\ \E j \in DOMAIN calls[s] :
                              calls[s][j].site = "use" /\ calls[s][j].name = other
                        /\ <<s, other>> \in adminLog

\* everything the model holds about one session
SessionState(t) ==
    <<pc[t], fwd[t], age[t], toUp[t], toCli[t], cliRead[t], upRead[t],
      cliClosed[t], upClosed[t], serverGreeting[t], clientHandshake[t],
      replyErr[t], serverResponse[t], buf[t], ens[t], calls[t],
      cliSent[t], cliPending[t], cliPeer[t], upSent[t], upPending[t], upPeer[t]>>

\* a step in which session s fails, or the accept loop logs an error,
\* changes nothing of any other session
C20_Step ==
    /\ \A s \in Sessions :
          (pc[s] # "failed" /\ pc'[s] = "failed") =>
              \A t \in Sessions \ {s} : SessionState(t)' = SessionState(t)
    /\ listener'.errors # listener.errors =>
          \A t \in Sessions : SessionState(t)' = SessionState(t)

\* C20: the accept loop runs for ever, whatever sessions failed and
\* whatever accept errors occurred: while a connection is waiting, accepting
\* it is possible; and the failure of one session changes no state of
\* another.
C20_FailuresAreLocal ==
    /\ [](/\ listener.loop = "running"
          /\ env.conns > 0 => ENABLED (\E s \in Sessions : Accept(s)))
    /\ [][C20_Step]_vars

C20_Witness ==
    /\ listener.errors = 1
    /\ pc[1] = "failed"
    /\ env.conns > 0
    /\ ENABLED Accept(2)

\* C21: a relaying session one of whose peers has ended its stream gets to
\* closed, whatever the other peer does or does not do.
C21_RelayEndsWhenEitherSideEnds ==
    \A s \in Sessions :
        (Relaying(s) /\ (cliPeer[s] = "closed" \/ upPeer[s] = "closed")) ~> (pc[s] = "closed")

\* the lifecycle state a session is in, by the position of handleConnection
Stage(s) ==
    CASE pc[s] = "idle" -> 0
      [] pc[s] = "dial" -> 1
      [] pc[s] \in {"readGreeting", "writeGreeting"} -> 2
      [] pc[s] \in {"readHandshake", "gate", "writeHandshake", "readReply",
                    "writeOK", "writeReply"} -> 3
      [] pc[s] \in {"copy", "wait"} -> 4
      [] pc[s] = "closed" -> 5
      [] pc[s] = "failed" -> 6

\* a step keeps a session in its stage or moves it to the next one or to
\* failed, and moves no byte of a session that is failed or closed
C22_Step ==
    \A s \in Sessions :
        /\ (pc[s] \notin {"failed", "closed"} /\ pc'[s] # "failed") =>
              Stage(s)' \in {Stage(s), Stage(s) + 1}
        /\ pc[s] \in {"failed", "closed"} =>
              /\ pc'[s] = pc[s]
              /\ toUp'[s] = toUp[s] /\ toCli'[s] = toCli[s]

\* C22: the stages follow one another in order, failed and closed are final
\* and no byte moves after them; the handshake response is read only after
\* the greeting was written to the client; and the two copies run only after
\* a handshake reply, the upstream's or the synthesized one, was written to
\* the client after the greeting.
C22_LifecycleInOrder ==
    /\ [](\A s \in Sessions :
            /\ clientHandshake[s] # <<>> =>
                  /\ serverGreeting[s] # <<>>
                  /\ IsPrefix(serverGreeting[s], toCli[s])
            /\ (Relaying(s) \/ fwd[s] # "none") =>
                  \E reply \in {serverResponse[s], AckFrame} :
                      /\ reply # <<>>
                      /\ IsPrefix(serverGreeting[s] \o reply, toCli[s]))
    /\ [][C22_Step]_vars

\* C23: a call of ensureDatabaseExists holds an open admin connection only
\* between sql.Open and its return; it has closed the connection when it
\* returns, on every path that opened one; a call starts without a
\* connection; so the open admin connections are never more than the calls
\* in progress.
C23_AdminConnectionPerCall ==
    /\ \A s \in Sessions :
          /\ ens[s].conn = "open" => ens[s].pc \in {"ping", "query", "create"}
          /\ ens[s].pc \in {"ping", "query", "create"} => ens[s].conn = "open"
          /\ ens[s].pc = "validate" => ens[s].conn = "none"
          /\ ens[s].pc = "ret" =>
                ens[s].conn = IF ens[s].err = "invalid" THEN "none" ELSE "closed"
    /\ Cardinality({s \in Sessions : ens[s].conn = "open"})
          <= Cardinality({s \in Sessions : ens[s].pc \notin {"idle", "ret"}})

C23_Witness ==
    \E s \in Sessions :
        /\ ens[s].pc = "ret" /\ ens[s].site = "use"
        /\ ens[s].err = "create_failed" /\ ens[s].conn = "closed"
        /\ Len(calls[s]) = 2

\* a step of a call: it goes from the existence query to CREATE only when
\* the schema is absent at the query, it returns from the query without
\* CREATE when the schema is present, CREATE is issued only by a call that
\* came from such a query, and a call that returns nil leaves the schema
\* present
C24_Step ==
    /\ \A s \in Sessions :
          /\ (ens[s].pc = "query" /\ ens'[s].pc = "create") =>
                ens[s].name \notin schemas
          /\ (ens[s].pc = "query" /\ ens[s].name \in schemas /\ ens'[s] # ens[s]) =>
                /\ ens'[s].pc = "ret" /\ ens'[s].err \in {"nil", "query"}
                /\ createLog' = createLog
          /\ (ens[s].pc # "ret" /\ ens'[s].pc = "ret" /\ ens'[s].err = "nil") =>
                ens[s].name \in schemas'
    /\ createLog' # createLog =>
          \E s \in Sessions :
              /\ ens[s].pc = "create"
              /\ createLog' = createLog \cup {<<s, ens[s].name>>}

\* C24: CREATE DATABASE is issued only after the existence query of the same
\* call reported the schema absent, never after it reported it present, and
\* a call that returns success leaves the schema present on the upstream.
C24_CreateOnlyWhenAbsent == [][C24_Step]_vars

C24_Witness ==
    \E s \in Sessions :
        /\ HasCall(s, "handshake", NAME_db, "nil") /\ <<s, NAME_db>> \in createLog
        /\ HasCall(s, "use", NAME_t, "nil") /\ <<s, NAME_t>> \notin createLog
        /\ {NAME_db, NAME_t} \subseteq schemas

\* the session ended at the dial: it is failed and never had an upstream
\* connection
DialFailed(s) == pc[s] = "failed" /\ upPeer[s] = "none"

\* C25: a session whose dial of the upstream failed is failed with its client
\* connection closed once, has written no byte to the client (nor to an
\* upstream), and has made no call of ensureDatabaseExists.
C25_DialFailureEndsSession ==
    \A s \in Sessions :
        DialFailed(s) =>
            /\ cliClosed[s] = 1 /\ upClosed[s] = 0
            /\ toCli[s] = <<>> /\ toUp[s] = <<>>
            /\ calls[s] = <<>> /\ ens[s] = IdleCall
            /\ \A e \in adminLog : e[1] # s

C25_Witness ==
    \E s \in Sessions : DialFailed(s) /\ cliClosed[s] = 1 /\ toCli[s] = <<>>

\* the payload length the first three bytes of a stream announce
Announced(data) == data[1] + 256 * data[2] + 65536 * data[3]

\* the stream ends before the header or the announced payload is whole
EndsEarly(data) == Len(data) < 4 \/ Len(data) < 4 + Announced(data)

\* C26: readPacketWithTimeout returns an error and no frame when the stream
\* ends before the 4 header bytes or the announced payload bytes are read,
\* a timeout error when it is the deadline that ends the wait; a frame it
\* returns has exactly the announced number of payload bytes, and is the
\* frame the session model reads.
C26_ReadIsAllOrNothing ==
    callRet # NoResult =>
        LET r == callRet[1]
            data == callArg.data
        IN /\ EndsEarly(data) => (r.err # "nil" /\ r.packet = <<>>)
           /\ (EndsEarly(data) /\ callArg.end = "timeout") => r.err = "timeout"
           /\ ~EndsEarly(data) => r.err = "nil"
           /\ r.err = "nil" =>
                /\ Len(r.packet) = 1
                /\ Len(r.packet[1].Payload) = Announced(data)
                /\ r.packet[1].Length = Announced(data)
                /\ r.packet[1].FullPacket = SubSeq(data, 1, 4 + Announced(data))
                /\ FrameReady(data) /\ r.packet[1] = readPacket(data)

C26_Witness ==
    /\ callArg = [data |-> SubSeq(LongFrame, 1, 259), end |-> "timeout"]
    /\ callRet = <<[packet |-> <<>>, err |-> "timeout"]>>

\* the bytes written to the client without the synthesized acknowledgment
\* (the bytes writePacket wrote for okPacket after the greeting)
ClientBytesSansAck(s) ==
    IF replyErr[s] \in {"eof", "timeout"} /\ Relaying(s)
    THEN LET ack == Len(serverGreeting[s]) + Len(writePacket(okPacket))
         IN serverGreeting[s] \o SubSeq(toCli[s], ack + 1, Len(toCli[s]))
    ELSE toCli[s]

\* the bytes read from the upstream so far
UpstreamBytesRead(s) == SubSeq(upSent[s], 1, upRead[s])

AckSynthesized(s) ==
    replyErr[s] \in {"eof", "timeout"} /\ (Relaying(s) \/ pc[s] = "closed")

CallsFrom(s, site) ==
    Cardinality({i \in DOMAIN calls[s] : calls[s][i].site = site})
    + (IF ens[s].pc \notin {"idle", "ret"} /\ ens[s].site = site THEN 1 ELSE 0)

\* the frames the client has sent after its handshake response that the
\* classifier takes for a USE command with a name
UseFramesSent(s) ==
    LET fs == FramesOf(cliSent[s])
    IN {i \in DOMAIN fs : /\ i > 1
                          /\ isUseCommand(fs[i])
                          /\ extractDatabaseFromUseCommand(fs[i]) # <<>>}

====
